---- MODULE Spec2Model ----
(***************************************************************************)
(* A model of the refacto batch refactoring tool.  The repository holds    *)
(* three variants of the same pipeline; a run executes one of them:        *)
(*   "fileProcessor"     src/index.ts -> fileProcessor.ts -> the           *)
(*                       completion client (callOpenAIWithRetries)         *)
(*   "config"            refactorFiles.ts driving the refactorReact /      *)
(*                       refactorJavascript of config.ts                   *)
(*   "refactorFunctions" refactorFiles.ts driving the refactorReact /      *)
(*                       refactorJavascript of refactorFunctions.ts, the   *)
(*                       module its import names                           *)
(* The file system, the completion service and the random jitter are the   *)
(* environment: every outcome they can produce is drawn with \E.           *)
(***************************************************************************)
EXTENDS Integers, Sequences, FiniteSets, TLC

\* ------------------------------------------------------------------ bounds
\* directory entries revealed in one run
MaxEntries == 2
\* nesting of directories below the root
MaxDepth == 1

\* ------------------------------------------------------- program constants
Pipelines == {"fileProcessor", "config", "refactorFunctions"}

\* callOpenAIWithRetries: const maxRetries = 5
maxRetries == 5
\* callOpenAIWithRetries: const baseDelay = 2000
baseDelay == 2000
\* getRefactoredCode: const maxRetries = 3
cfgMaxRetries == 3
\* getRefactoredCode: const delayTimeMs = 1000
delayTimeMs == 1000
\* Math.floor(Math.random() * 1000): an integer of 0..999
JitterSup == 1000
\* the jitters the model draws: the two extremes
Jitters == {0, JitterSup - 1}

\* ------------------------------------------------------------ environment
\* A file name is the sequence of its dot-separated parts: a.test.js is
\* <<"a", "test", "js">>.
FileNames ==
  { <<"a", "js">>, <<"b", "js">>, <<"a", "jsx">>, <<"a", "test", "js">>,
    <<"r", "md">> }
DirNames == { <<"sub">>, <<"__tests__">> }

\* What a file's text looks like to the two classifiers.
Contents == {"plain", "importReact", "classComponent"}

\* What the completion service answers to one request: a completion with
\* text, a completion without text, HTTP 429, another error status.
Statuses == {"ok", "empty", "429", "500"}

\* ----------------------------------------------------------- path helpers
\* String.prototype.endsWith for a suffix "." + parts joined by "."
EndsWith(name, suffix) ==
  /\ Len(name) > Len(suffix)
  /\ SubSeq(name, Len(name) - Len(suffix) + 1, Len(name)) = suffix

\* path.extname(name) === ".js"
ExtnameIsJs(name) ==
  /\ Len(name) >= 2
  /\ name[Len(name)] = "js"
  /\ ~(Len(name) = 2 /\ name[1] = "")

\* path.parse(p).name: the base name without its last extension
ParsedName(name) ==
  IF Len(name) >= 2 /\ ~(Len(name) = 2 /\ name[1] = "")
    THEN SubSeq(name, 1, Len(name) - 1)
    ELSE name

\* path.join(parsed.dir, parsed.name + newExtension)
NewFilePath(filePath, newExtension) ==
  [dir |-> filePath.dir, name |-> Append(ParsedName(filePath.name), newExtension)]

\* EligibleFP without the test-file exclusion
EligibleFPAnyJs(name) ==
  EndsWith(name, <<"js">>) \/ EndsWith(name, <<"jsx">>)

\* fileProcessor.processDirectory line 88
EligibleFP(name) ==
  /\ EndsWith(name, <<"js">>) \/ EndsWith(name, <<"jsx">>)
  /\ ~EndsWith(name, <<"test", "js">>)

\* fileProcessor.processDirectory line 90
IsTestNameFP(name) == EndsWith(name, <<"test", "js">>)

\* refactorFiles.processFiles line 44
IsTestNameRF(name) == EndsWith(name, <<"test", "js">>)

\* config.ts isTestFile: filePath.split(path.sep).includes("__tests__")
isTestFile(filePath) ==
  \/ \E i \in 1..Len(filePath.dir) : filePath.dir[i] = "__tests__"
  \/ filePath.name = <<"__tests__">>

\* fileProcessor.processFile line 33
IsReactComponentFP(content) == content = "classComponent"

\* refactorFiles.isReactComponent
isReactComponent(content) == content \in {"importReact", "classComponent"}

\* ------------------------------------------------------------------ state
VARIABLES
  pipeline,   \* the variant this run executes
  pc,         \* where the single task of control is suspended
  stack,      \* the active processDirectory / processFiles calls, innermost last
  entries,    \* directory entries revealed so far
  disk,       \* the files the run has seen or written: path -> content
  summary,    \* fileProcessor's summary / refactorFiles' metrics
  cur,        \* the file being processed, with what its processing did so far
  model,      \* "primary" or "fallback": the model of the running client call
  attempt,    \* the client's loop counter: requests answered in this call
  delayTime,  \* the delay being slept, in ms
  hist,       \* one record per file whose processing has ended
  skipped,    \* the paths logged as "Skipping test file"
  unreadable  \* the directories whose listing has thrown

vars ==
  << pipeline, pc, stack, entries, disk, summary, cur, model, attempt,
     delayTime, hist, skipped, unreadable >>

NoPath == [dir |-> <<>>, name |-> <<>>]

\* fileProcessor.ts line 16, refactorFiles.ts line 18.  The metrics object of
\* refactorFiles keeps success in succeeded and retried in
\* failedInitiallyButSucceeded.
InitialSummary ==
  [ attempted |-> 0, succeeded |-> 0, failedInitiallyButSucceeded |-> 0,
    failed |-> 0, failedFiles |-> <<>>, gpt35Success |-> 0, fouroSuccess |-> 0 ]

\* No file is being processed.  Besides the locals of processFile (path,
\* isReactComponent, initialAttemptFailed) the record keeps what the
\* processing of the file did: the calls of the client in order, the
\* requests, sleeps and last answer of the running call, the models that
\* answered something else than 429 or answered without text, the error each
\* call ended with, the models whose call ended after maxRetries answers
\* that were all 429, and the model whose text was accepted.
NoFile ==
  [ path |-> NoPath, isReactComponent |-> FALSE, initialAttemptFailed |-> FALSE,
    calls |-> <<>>, callReqs |-> 0, sleeps |-> 0, lastStatus |-> "none",
    non429From |-> {}, emptyFrom |-> {}, errors |-> <<>>, exhausted |-> {},
    by |-> "none" ]

Original(p) == [kind |-> "orig", src |-> p, by |-> "none"]
Removed(p) == [kind |-> "gone", src |-> p, by |-> "none"]
Generated(p, role) == [kind |-> "gen", src |-> p, by |-> role]

Init ==
  /\ pipeline \in Pipelines
  /\ pc = "start"
  /\ stack = <<>>
  /\ entries = 0
  /\ disk = [p \in {} |-> Original(NoPath)]
  /\ summary = InitialSummary
  /\ cur = NoFile
  /\ model = "none"
  /\ attempt = 0
  /\ delayTime = 0
  /\ hist = <<>>
  /\ skipped = {}
  /\ unreadable = {}

\* ---------------------------------------------------------------- helpers
Top == stack[Len(stack)]

FullPath(name) == [dir |-> Top.dir, name |-> name]

\* the entry just read is marked as seen in the innermost directory
MarkSeen(name) ==
  [stack EXCEPT ![Len(stack)] = [@ EXCEPT !.seen = @ \cup {name}]]

\* an entry the current listing has not produced yet
Fresh(name) ==
  /\ pc = "walk"
  /\ stack # <<>>
  /\ entries < MaxEntries
  /\ name \notin Top.seen

\* RecordFailure without the push
RecordFailureNoPush(s, filePath) ==
  [s EXCEPT !.failed = @ + 1]

\* summary.failed++; summary.failedFiles.push(filePath)
RecordFailure(s, filePath) ==
  [s EXCEPT !.failed = @ + 1, !.failedFiles = Append(@, filePath)]

\* metrics.attempted++ of refactorFiles.ts line 58
CountAttempt(s) == [s EXCEPT !.attempted = @ + 1]

\* the record hist keeps of a file
Outcome(c, primary, fallback, io, out) ==
  [ path |-> c.path, isReactComponent |-> c.isReactComponent,
    primary |-> primary, fallback |-> fallback, io |-> io, out |-> out ]

\* ----------------------------------------------------------------- walker
\* main -> processDirectory(root) / processFiles(inputFolder): the root is
\* listed.  A listing error escapes processDirectory and ends the process
\* with exit code 1; processFiles logs it and returns.
StartRun ==
  /\ pc = "start"
  /\ \E ok \in BOOLEAN :
       IF ok
         THEN /\ stack' = << [dir |-> <<>>, seen |-> {}] >>
              /\ pc' = "walk"
              /\ unreadable' = unreadable
         ELSE /\ stack' = <<>>
              /\ pc' = IF pipeline = "fileProcessor" THEN "aborted" ELSE "done"
              /\ unreadable' = unreadable \cup {<<>>}
  /\ UNCHANGED << pipeline, entries, disk, summary, cur, model, attempt,
                  delayTime, hist, skipped >>

\* fs.statSync(fullPath) throws: nothing catches it in processDirectory.
StatError ==
  /\ pipeline = "fileProcessor"
  /\ \E name \in FileNames \cup DirNames : Fresh(name)
  /\ pc' = "aborted"
  /\ stack' = <<>>
  /\ entries' = entries + 1
  /\ UNCHANGED << pipeline, disk, summary, cur, model, attempt, delayTime,
                  hist, skipped, unreadable >>

\* The entry is a directory: the walker recurses into it.
EnterDirectory ==
  /\ Len(stack) <= MaxDepth
  /\ \E name \in DirNames, ok \in BOOLEAN :
       /\ Fresh(name)
       /\ entries' = entries + 1
       /\ IF ok
            THEN /\ stack' = Append(MarkSeen(name),
                                    [dir |-> Top.dir \o name, seen |-> {}])
                 /\ pc' = "walk"
                 /\ unreadable' = unreadable
            ELSE /\ unreadable' = unreadable \cup {Top.dir \o name}
                 /\ IF pipeline = "fileProcessor"
                      THEN /\ stack' = <<>>
                           /\ pc' = "aborted"
                      ELSE /\ stack' = MarkSeen(name)
                           /\ pc' = "walk"
  /\ UNCHANGED << pipeline, disk, summary, cur, model, attempt, delayTime,
                  hist, skipped >>

\* The entry is a file with a test-file name: it is logged and skipped.
SkipTestFile ==
  /\ \E name \in FileNames :
       /\ Fresh(name)
       /\ IF pipeline = "fileProcessor"
            THEN ~EligibleFP(name) /\ IsTestNameFP(name)
            ELSE ExtnameIsJs(name) /\ IsTestNameRF(name)
       /\ stack' = MarkSeen(name)
       /\ disk' = (FullPath(name) :> Original(FullPath(name))) @@ disk
       /\ skipped' = skipped \cup {FullPath(name)}
  /\ entries' = entries + 1
  /\ UNCHANGED << pipeline, pc, summary, cur, model, attempt, delayTime, hist,
                  unreadable >>

\* The entry is a file that is neither eligible nor a test file.
IgnoreEntry ==
  /\ \E name \in FileNames :
       /\ Fresh(name)
       /\ IF pipeline = "fileProcessor"
            THEN ~EligibleFP(name) /\ ~IsTestNameFP(name)
            ELSE ~ExtnameIsJs(name)
       /\ stack' = MarkSeen(name)
       /\ disk' = (FullPath(name) :> Original(FullPath(name))) @@ disk
  /\ entries' = entries + 1
  /\ UNCHANGED << pipeline, pc, summary, cur, model, attempt, delayTime,
                  hist, skipped, unreadable >>

\* The listing of the innermost directory is exhausted: the call returns.
EndOfDirectory ==
  /\ pc = "walk"
  /\ stack # <<>>
  /\ stack' = SubSeq(stack, 1, Len(stack) - 1)
  /\ pc' = IF Len(stack) = 1 THEN "done" ELSE "walk"
  /\ UNCHANGED << pipeline, entries, disk, summary, cur, model, attempt,
                  delayTime, hist, skipped, unreadable >>

\* ------------------------------------------------------ completion client
\* MaxRetriesOf with the loop running one iteration too many
MaxRetriesOffByOne(pl) ==
  CASE pl = "fileProcessor" -> maxRetries + 1
    [] pl = "config" -> cfgMaxRetries + 1
    [] OTHER -> 2

\* the loop bound of the client of each variant; refactorFunctions.ts issues
\* one request per model, with no loop
MaxRetriesOf(pl) ==
  CASE pl = "fileProcessor" -> maxRetries
    [] pl = "config" -> cfgMaxRetries
    [] OTHER -> 1

\* callOpenAIWithRetries line 32: status === 429
IsRateLimit(status) == status = "429"

\* refactorCode line 88, attemptRefactorWithModel line 65, refactorReact
\* (refactorFunctions.ts) line 42: the response carries text
HasContent(status) == status = "ok"

\* Does the client loop go on after this answer?  callOpenAIWithRetries
\* retries a 429 only; attemptRefactorWithModel catches every failure of the
\* iteration, the missing text included; refactorFunctions.ts never retries.
RetriesOn(pl, status) ==
  CASE pl = "fileProcessor" -> IsRateLimit(status)
    [] pl = "config" -> ~HasContent(status)
    [] OTHER -> FALSE

\* Is the retry preceded by a sleep, n requests of the call being answered?
\* callOpenAIWithRetries sleeps after every 429; attemptRefactorWithModel
\* sleeps if (attempt < maxRetries).
SleepsBeforeRetry(pl, n) ==
  CASE pl = "fileProcessor" -> TRUE
    [] pl = "config" -> n < cfgMaxRetries
    [] OTHER -> FALSE

\* BackoffDelay growing linearly with the attempt
BackoffDelayLinear(n, jitter) == baseDelay * (n + 1) + jitter

\* callOpenAIWithRetries line 34: baseDelay * Math.pow(2, attempt) + jitter
BackoffDelay(n, jitter) == baseDelay * (2 ^ n) + jitter

\* the delays a sleep of the running call can take
Delays(pl, n) ==
  IF pl = "fileProcessor"
    THEN { BackoffDelay(n, jitter) : jitter \in Jitters }
    ELSE { delayTimeMs }

\* the error a call of the client ends with
ErrorOf(status) ==
  CASE status = "empty" -> "NoContent"
    [] status = "429" -> "RateLimited"
    [] OTHER -> "Status"

\* NextModel going back to the primary model after the fallback model
NextModelInterleaved(role) == IF role = "primary" THEN "fallback" ELSE "primary"

\* NextModel with no fallback at all
NextModelNoFallback(role) == "none"

\* the model called once the call with this one has failed
NextModel(role) == IF role = "primary" THEN "fallback" ELSE "none"

\* what an answer adds to the record of the file
Answered(c, role, status) ==
  [c EXCEPT !.lastStatus = status,
            !.non429From = IF status # "429" THEN @ \cup {role} ELSE @,
            !.emptyFrom = IF status = "empty" THEN @ \cup {role} ELSE @]

\* refactorCode / attemptRefactorWithModel is called with the model
Called(c, role) ==
  [c EXCEPT !.calls = Append(@, role), !.callReqs = 0, !.sleeps = 0,
            !.lastStatus = "none"]

\* openai.chat.completions.create(...): a request of the running call leaves
Requested(c) == [c EXCEPT !.callReqs = @ + 1]

\* the call with the model has thrown err
Thrown(c, role, err) ==
  [c EXCEPT !.errors = Append(@, err),
            !.exhausted = IF c.callReqs = maxRetries /\ role \notin c.non429From
                            THEN @ \cup {role} ELSE @]

\* ------------------------------------------------------ file processing
\* Is the file handed to the per-file processing?  processDirectory line 88;
\* processFiles lines 42 to 47.
Eligible(pl, name) ==
  IF pl = "fileProcessor"
    THEN EligibleFP(name)
    ELSE ExtnameIsJs(name) /\ ~IsTestNameRF(name)

\* The classification the variant makes of the text.
Classify(pl, content) ==
  IF pl = "fileProcessor" THEN IsReactComponentFP(content)
                          ELSE isReactComponent(content)

\* newExtension: processFile line 56; refactorReact saves ".tsx" and
\* refactorJavascript ".ts"
NewExtension(isComponent) == IF isComponent THEN "tsx" ELSE "ts"

\* Where the text is written: processFile line 57 and saveRefactoredFile
\* line 111 build a new path; refactorFunctions.ts writes to filePath.
WriteTarget(pl, filePath, isComponent) ==
  IF pl = "refactorFunctions"
    THEN filePath
    ELSE NewFilePath(filePath, NewExtension(isComponent))

\* The call of the client with the running model has thrown err.  After the
\* primary model the catch block calls the client with the fallback model,
\* whose first request leaves; after the fallback model the file has failed:
\* fileProcessor records it, config.ts returns {success: false} and
\* processFiles counts the attempt and the failure, refactorFunctions.ts
\* returns nothing and processFiles counts nothing.
CallFails(c, err) ==
  IF NextModel(model) # "none"
    THEN /\ cur' = Requested(Called(
                      [Thrown(c, model, err) EXCEPT !.initialAttemptFailed = TRUE],
                      NextModel(model)))
         /\ model' = NextModel(model)
         /\ attempt' = 0
         /\ pc' = "await"
         /\ UNCHANGED << summary, hist, disk >>
    ELSE /\ cur' = Thrown(c, model, err)
         /\ model' = "none"
         /\ attempt' = 0
         /\ pc' = "fileDone"
         /\ summary' =
              CASE pipeline = "fileProcessor" -> RecordFailure(summary, c.path)
                [] pipeline = "config" ->
                     RecordFailure(CountAttempt(summary), c.path)
                [] OTHER -> summary
         /\ hist' = Append(hist, Outcome(c, "failed", "failed", "none", NoPath))
         /\ disk' = disk

\* summary.gpt35Success++ / summary.fouroSuccess++ of processFile lines 39
\* and 45
CountModelSuccess(pl, s, role) ==
  IF pl = "fileProcessor"
    THEN IF role = "primary"
      THEN [s EXCEPT !.gpt35Success = @ + 1]
      ELSE [s EXCEPT !.fouroSuccess = @ + 1]
    ELSE s

\* Saved with the unlink placed before the write: a write error leaves the
\* original removed
SavedUnlinkFirst(d, filePath, target, role, io, unlinks) ==
  LET written == (target :> Generated(filePath, role)) @@ d
  IN  IF io = "unlinkErr" THEN d
      ELSE IF ~unlinks THEN (IF io = "writeErr" THEN d ELSE written)
      ELSE IF io = "writeErr" THEN (filePath :> Removed(filePath)) @@ d
      ELSE (filePath :> Removed(filePath)) @@ written

\* The disk after fs.writeFileSync(target) and then fs.unlinkSync(filePath)
\* (processFile lines 59 and 62, saveRefactoredFile lines 112 to 115): a
\* write error leaves the disk as it was, an unlink error leaves both files.
Saved(d, filePath, target, role, io, unlinks) ==
  LET written == (target :> Generated(filePath, role)) @@ d
  IN  IF io = "writeErr" THEN d
      ELSE IF io = "ok" /\ unlinks
        THEN (filePath :> Removed(filePath)) @@ written
        ELSE written

\* SaveSummary with succeeded++ placed before the unlink
SaveSummaryCountsEarly(pl, s, filePath, io, retried) ==
  LET succeeded == [s EXCEPT !.succeeded = @ + 1,
                             !.failedInitiallyButSucceeded =
                                IF retried THEN @ + 1 ELSE @]
  IN  IF pl = "refactorFunctions"
        THEN (IF io # "ok" THEN RecordFailure(s, filePath) ELSE s)
        ELSE IF io = "writeErr" THEN RecordFailure(s, filePath)
        ELSE IF io = "unlinkErr" THEN RecordFailure(succeeded, filePath)
        ELSE succeeded

\* The counters after the write-then-delete step: processFile lines 65 to 68
\* and 73 to 74; processFiles lines 59 to 67 on the result of config.ts, and
\* lines 71 to 72 on an error of refactorFunctions.ts, whose success is not
\* counted.
SaveSummary(pl, s, filePath, io, retried) ==
  IF io # "ok"
    THEN RecordFailure(s, filePath)
    ELSE IF pl = "refactorFunctions"
      THEN s
      ELSE [s EXCEPT !.succeeded = @ + 1,
                     !.failedInitiallyButSucceeded =
                        IF retried THEN @ + 1 ELSE @]

\* The call has returned text: it is written and the original removed, in
\* the same turn.  processFile lines 39, 45 and 54 to 75: an error of the
\* write or of the unlink is caught and recorded as a failure.
\* saveRefactoredFile and refactorReact / refactorJavascript of config.ts:
\* the same, the result reaching processFiles, which counts it.
\* refactorFunctions.ts: fs.writeFileSync(filePath, result), an error
\* reaching the per-file catch of processFiles.
CallSucceeds(c) ==
  \E writeOK \in BOOLEAN, unlinkOK \in BOOLEAN :
    LET filePath == c.path
        target == WriteTarget(pipeline, filePath, c.isReactComponent)
        unlinks == pipeline # "refactorFunctions" /\ target # filePath
        io == IF ~writeOK THEN "writeErr"
              ELSE IF unlinks /\ ~unlinkOK THEN "unlinkErr" ELSE "ok"
        modelCounted == CountModelSuccess(pipeline, summary, model)
        counted == IF pipeline = "config" THEN CountAttempt(modelCounted)
                                          ELSE modelCounted
        done == [c EXCEPT !.by = model]
    IN  /\ (unlinks /\ writeOK) \/ unlinkOK
        /\ cur' = done
        /\ disk' = Saved(disk, filePath, target, model, io, unlinks)
        /\ summary' = SaveSummary(pipeline, counted, filePath, io,
                                  c.initialAttemptFailed)
        /\ hist' = Append(hist,
             Outcome(done,
                     IF model = "primary" THEN "ok" ELSE "failed",
                     IF model = "fallback" THEN "ok" ELSE "none",
                     io,
                     IF writeOK THEN target ELSE NoPath))
        /\ pc' = "fileDone"
        /\ model' = "none"
        /\ attempt' = 0

\* An eligible file is reached.  processFile counts the attempt, reads the
\* file (an error escapes to main and ends the process), classifies it and
\* calls refactorCode, whose first request leaves.  processFiles reads the
\* file inside its per-file try (an error is counted as a failure),
\* classifies it and calls refactorReact or refactorJavascript; those of
\* config.ts return {success: false} at once for a path under __tests__.
ProcessFile ==
  /\ \E name \in FileNames, content \in Contents, readOK \in BOOLEAN :
       LET filePath == FullPath(name)
           c == [NoFile EXCEPT !.path = filePath,
                               !.isReactComponent = Classify(pipeline, content)]
           unread == [NoFile EXCEPT !.path = filePath]
       IN  /\ Fresh(name)
           /\ Eligible(pipeline, name)
           /\ disk' = (filePath :> Original(filePath)) @@ disk
           /\ IF pipeline = "fileProcessor"
                THEN /\ summary' = CountAttempt(summary)
                     /\ hist' = hist
                     /\ IF readOK
                          THEN /\ cur' = Requested(Called(c, "primary"))
                               /\ model' = "primary"
                               /\ pc' = "await"
                               /\ stack' = MarkSeen(name)
                          ELSE /\ cur' = unread
                               /\ model' = "none"
                               /\ pc' = "aborted"
                               /\ stack' = <<>>
                ELSE /\ stack' = MarkSeen(name)
                     /\ IF ~readOK
                          THEN /\ summary' = RecordFailure(summary, filePath)
                               /\ cur' = unread
                               /\ hist' = Append(hist,
                                    Outcome(unread, "none", "none", "readErr", NoPath))
                               /\ model' = "none"
                               /\ pc' = "fileDone"
                          ELSE IF pipeline = "config" /\ isTestFile(filePath)
                            THEN /\ summary' =
                                      RecordFailure(CountAttempt(summary), filePath)
                                 /\ cur' = c
                                 /\ hist' = Append(hist,
                                      Outcome(c, "none", "none", "none", NoPath))
                                 /\ model' = "none"
                                 /\ pc' = "fileDone"
                            ELSE /\ summary' = summary
                                 /\ cur' = Requested(Called(c, "primary"))
                                 /\ hist' = hist
                                 /\ model' = "primary"
                                 /\ pc' = "await"
  /\ entries' = entries + 1
  /\ attempt' = 0
  /\ UNCHANGED << pipeline, delayTime, skipped, unreadable >>

\* The answer arrives and the code runs up to its next suspension point: the
\* write and the post-write sleep, the backoff sleep, or the next request.
Respond ==
  /\ pc = "await"
  /\ \E status \in Statuses :
       LET c == Answered(cur, model, status)
           n == attempt + 1
       IN  IF HasContent(status)
             THEN CallSucceeds(c) /\ delayTime' = delayTime
             ELSE IF RetriesOn(pipeline, status)
               THEN IF SleepsBeforeRetry(pipeline, n)
                 THEN /\ delayTime' \in Delays(pipeline, attempt)
                      /\ cur' = [c EXCEPT !.sleeps = @ + 1]
                      /\ pc' = "backoff"
                      /\ UNCHANGED << summary, model, attempt, hist, disk >>
                 ELSE IF n < MaxRetriesOf(pipeline)
                   THEN /\ attempt' = n
                        /\ cur' = Requested(c)
                        /\ pc' = "await"
                        /\ UNCHANGED << summary, model, delayTime, hist, disk >>
                   ELSE CallFails(c, "AllAttemptsFailed") /\ delayTime' = delayTime
               ELSE CallFails(c, ErrorOf(status)) /\ delayTime' = delayTime
  /\ UNCHANGED << pipeline, stack, entries, skipped, unreadable >>

\* The sleep ends, the loop counter is incremented and the loop condition is
\* tested: the next request leaves or, past the last iteration, the client
\* throws.
Wake ==
  /\ pc = "backoff"
  /\ delayTime' = 0
  /\ IF attempt + 1 < MaxRetriesOf(pipeline)
       THEN /\ attempt' = attempt + 1
            /\ cur' = Requested(cur)
            /\ pc' = "await"
            /\ UNCHANGED << summary, model, hist, disk >>
       ELSE CallFails(cur, "RetriesExhausted")
  /\ UNCHANGED << pipeline, stack, entries, skipped, unreadable >>

\* processFile / the loop body of processFiles returns to the walker (after
\* the sleep(1000) of processFile line 70 when the file was written).
FileReturns ==
  /\ pc = "fileDone"
  /\ cur' = NoFile
  /\ pc' = "walk"
  /\ UNCHANGED << pipeline, stack, entries, disk, summary, model, attempt,
                  delayTime, hist, skipped, unreadable >>

\* ---------------------------------------------------------- specification
Next ==
  \/ StartRun
  \/ StatError
  \/ EnterDirectory
  \/ SkipTestFile
  \/ IgnoreEntry
  \/ ProcessFile
  \/ Respond
  \/ Wake
  \/ FileReturns
  \/ EndOfDirectory

Spec == Init /\ [][Next]_vars

TypeOK ==
  /\ pipeline \in Pipelines
  /\ pc \in {"start", "walk", "await", "backoff", "fileDone", "done",
             "aborted"}
  /\ entries \in 0..MaxEntries
  /\ attempt \in 0..maxRetries
  /\ model \in {"none", "primary", "fallback"}

\* ------------------------------------------------------- claim vocabulary
\* the calls of the client made with the model for the file being processed
CallsTo(role) ==
  Cardinality({ i \in 1..Len(cur.calls) : cur.calls[i] = role })

\* how often the path is recorded in failedFiles
TimesFailed(filePath) ==
  Cardinality({ i \in 1..Len(summary.failedFiles) :
                  summary.failedFiles[i] = filePath })

\* the paths holding text generated from the given source file
OutputsOf(filePath) ==
  { q \in DOMAIN disk : disk[q].kind = "gen" /\ disk[q].src = filePath }

\* the name carries the test-file suffix .test.js
HasTestName(filePath) == EndsWith(filePath.name, <<"test", "js">>)

\* the name carries the extension .ts or .tsx
HasTsExtension(filePath) ==
  /\ Len(filePath.name) >= 2
  /\ filePath.name[Len(filePath.name)] \in {"ts", "tsx"}

\* the error the call with the model ended with, "none" while it has not
CallError(role) ==
  IF \E i \in 1..Len(cur.errors) : cur.calls[i] = role
    THEN cur.errors[CHOOSE i \in 1..Len(cur.errors) : cur.calls[i] = role]
    ELSE "none"

\* --------------------------------------------------------------------- C1
\* C1: after a complete traversal the summary satisfies
\* attempted = succeeded + failed, whatever the reads, completion calls,
\* writes and deletes did.  (Violated: processFiles counts a failure without
\* an attempt when the read or the in-place write throws.)
C1_AttemptedIsSucceededPlusFailed ==
  pc = "done" => summary.attempted = summary.succeeded + summary.failed

\* --------------------------------------------------------------------- C2
\* C2: a file whose primary and fallback attempts both failed has no output
\* written, keeps its original unmodified, and is in failedFiles exactly
\* once.  (Violated: refactorFunctions.ts returns nothing, so processFiles
\* records nothing.)
C2_BothFailedLeavesFileAndRecordsOnce ==
  \A i \in 1..Len(hist) :
    (hist[i].primary = "failed" /\ hist[i].fallback = "failed") =>
       /\ hist[i].out = NoPath
       /\ OutputsOf(hist[i].path) = {}
       /\ disk[hist[i].path] = Original(hist[i].path)
       /\ TimesFailed(hist[i].path) = 1

\* --------------------------------------------------------------------- C3
\* C3: a file for which a completion call succeeded, and whose write and
\* delete raised no error, has exactly one output, named .ts or .tsx, and its
\* original is removed.  (Violated: refactorFunctions.ts writes the text over
\* the original .js path.)
C3_SuccessWritesTsAndRemovesOriginal ==
  \A i \in 1..Len(hist) :
    ((hist[i].primary = "ok" \/ hist[i].fallback = "ok") /\ hist[i].io = "ok") =>
       /\ hist[i].out # NoPath
       /\ HasTsExtension(hist[i].out)
       /\ hist[i].out # hist[i].path
       /\ disk[hist[i].path].kind = "gone"

\* --------------------------------------------------------------------- C4
\* C4: for one file no call of the client with the primary model follows a
\* call with the fallback model (every request goes to the model of the
\* running call, so the requests are ordered as the calls are), and the
\* fallback model is called only once the call with the primary model has
\* ended with an error.
C4_PrimaryBeforeFallback ==
  /\ \A i, j \in 1..Len(cur.calls) :
       (i < j /\ cur.calls[i] = "fallback") => cur.calls[j] = "fallback"
  /\ cur.calls # <<>> => model \in {"none", cur.calls[Len(cur.calls)]}
  /\ CallsTo("fallback") > 0 =>
       /\ cur.calls[1] = "primary"
       /\ cur.initialAttemptFailed
       /\ CallError("primary") # "none"
       /\ cur.by # "primary"

C4_Witness ==
  /\ pc = "fileDone"
  /\ cur.calls = << "primary", "fallback" >>
  /\ "primary" \in cur.exhausted
  /\ cur.callReqs >= 2

\* --------------------------------------------------------------------- C5
\* C5: once the primary model has answered 429 to all maxRetries requests of
\* its call, the client is called with the fallback model exactly once for
\* that file; and never more than once for any file.
C5_FallbackOnceAfterExhaustion ==
  /\ CallsTo("fallback") <= 1
  /\ "primary" \in cur.exhausted => CallsTo("fallback") = 1

C5_Witness ==
  /\ pipeline = "fileProcessor"
  /\ pc = "fileDone"
  /\ "primary" \in cur.exhausted
  /\ CallsTo("fallback") = 1
  /\ CallError("primary") = "RetriesExhausted"

\* --------------------------------------------------------------------- C6
\* C6: in the completion client an error whose status is not 429 ends the
\* call: no sleep and no further request of that call follows it.
\* (Violated: attemptRefactorWithModel of config.ts catches every error,
\* sleeps and requests the same model again.)
C6_OtherErrorsEndTheCall ==
  pc \in {"await", "backoff"} => cur.lastStatus # "500"

\* --------------------------------------------------------------------- C7
\* C7: one call of the client issues at most maxRetries requests; a call of
\* callOpenAIWithRetries whose requests were all answered with 429 ends with
\* the retries-exhausted error; a file has at most two calls, so the
\* finished calls and the running one never add up to more than
\* 2 * maxRetries requests.
C7_RequestsBounded ==
  /\ cur.callReqs <= maxRetries
  /\ Len(cur.calls) <= 2
  /\ cur.calls # <<>> =>
       (Len(cur.calls) - 1) * maxRetries + cur.callReqs <= 2 * maxRetries
  /\ \A role \in cur.exhausted :
       pipeline = "fileProcessor" => CallError(role) = "RetriesExhausted"
  /\ (pipeline = "fileProcessor" /\ pc = "backoff" /\ cur.callReqs = maxRetries) =>
       cur.lastStatus = "429"

C7_Witness ==
  /\ pipeline = "fileProcessor"
  /\ pc = "fileDone"
  /\ cur.exhausted = {"primary", "fallback"}
  /\ cur.callReqs = maxRetries
  /\ cur.errors = << "RetriesExhausted", "RetriesExhausted" >>

\* --------------------------------------------------------------------- C8
\* C8: an answer without text is a failure of the attempt of its model: the
\* text that is written never comes from a model that answered without
\* text, and after such an answer of the primary model the fallback model is
\* engaged.  (Violated: attemptRefactorWithModel of config.ts retries the
\* same model, and a retry that succeeds is written without any fallback.)
C8_EmptyAnswerIsFailure ==
  pc = "fileDone" =>
     /\ cur.by \notin cur.emptyFrom
     /\ "primary" \in cur.emptyFrom => CallsTo("fallback") >= 1

\* --------------------------------------------------------------------- C9
\* C9: in every reachable state failedFiles holds as many paths as the
\* failed counter says.
C9_FailedFilesLengthIsFailed ==
  Len(summary.failedFiles) = summary.failed

C9_Witness ==
  /\ summary.failed = 2
  /\ Len(summary.failedFiles) = 2

\* -------------------------------------------------------------------- C10
\* C10: a file with a test-file name is skipped entirely: it is never handed
\* to the per-file processing (no request, no read), its content on disk is
\* never changed, nothing is generated from it, it is in no failure list,
\* and the counters only count the files that were processed.
C10_TestFilesSkipped ==
  /\ ~HasTestName(cur.path)
  /\ \A i \in 1..Len(hist) : ~HasTestName(hist[i].path)
  /\ \A q \in DOMAIN disk :
       HasTestName(q) => (disk[q] = Original(q) /\ OutputsOf(q) = {})
  /\ \A i \in 1..Len(summary.failedFiles) : ~HasTestName(summary.failedFiles[i])
  /\ summary.attempted <= Len(hist) + (IF pc \in {"await", "backoff", "aborted"} THEN 1 ELSE 0)
  /\ summary.succeeded <= Len(hist)
  /\ summary.failed <= Len(hist)
  /\ entries >= Len(hist) + Cardinality(skipped)

C10_Witness ==
  /\ pc = "done"
  /\ skipped # {}
  /\ Len(hist) = 1
  /\ summary.attempted = 1

\* -------------------------------------------------------------------- C11
\* the files whose processing has ended and that lie outside __tests__
EndedOutsideTests == {i \in 1..Len(hist) : ~isTestFile(hist[i].path)}

\* C11: with the functions of config.ts, a file under a __tests__ directory
\* is excluded from processing: no completion request is issued for it, no
\* file is written or removed for it, it is in no failure list and the
\* counters attempted, succeeded and failed count files outside __tests__
\* only.
C11_TestDirectoryExcluded ==
  pipeline = "config" =>
    /\ isTestFile(cur.path) => cur.calls = <<>>
    /\ \A q \in DOMAIN disk :
         isTestFile(q) => (disk[q] = Original(q) /\ OutputsOf(q) = {})
    /\ \A i \in 1..Len(summary.failedFiles) :
         ~isTestFile(summary.failedFiles[i])
    /\ summary.attempted <= Cardinality(EndedOutsideTests)
                               + (IF pc \in {"await", "backoff"} THEN 1 ELSE 0)
    /\ summary.succeeded <= Cardinality(EndedOutsideTests)
    /\ summary.failed <= Cardinality(EndedOutsideTests)

\* -------------------------------------------------------------------- C12
\* Did both models fail for the file of this record?
BothFailed(h) == h.primary = "failed" /\ h.fallback = "failed"

\* C12: when both models have failed for a file, the failure is recorded in
\* failedFiles and the traversal is not aborted: the walker that called the
\* processing of the file is still active, and the run is not aborted.
C12_TerminalFailureDoesNotAbort ==
  (pc = "fileDone" /\ hist # <<>> /\ BothFailed(hist[Len(hist)])) =>
    /\ TimesFailed(hist[Len(hist)].path) >= 1
    /\ summary.failed >= 1
    /\ stack # <<>>
    /\ stack # <<>> => Top.dir = cur.path.dir

\* -------------------------------------------------------------------- C13
\* C13: a step in which the listing of a directory throws leaves the walker
\* in the parent directory, with the same active calls, or ends a run whose
\* root could not be listed; it never aborts the run.
C13_ListingErrorAbortsSubtreeOnly ==
  [][ unreadable' # unreadable =>
        /\ pc' \in {"walk", "done"}
        /\ Len(stack') = Len(stack) ]_vars

\* -------------------------------------------------------------------- C14
\* C14: no error that arises during the traversal aborts the run: the
\* process never ends through the catch of main with exit code 1, so that
\* a run that has stopped has completed the traversal and printed the
\* summary.
C14_NoErrorAbortsTheRun ==
  /\ pc # "aborted"
  /\ (pc # "start" /\ stack = <<>>) => pc = "done"

\* -------------------------------------------------------------------- C15
\* the source files the run has removed
RemovedSources == {p \in DOMAIN disk : disk[p].kind = "gone"}

\* C15: the original is removed on success only.  A source file the run has
\* removed has its output written (the record of the file names the output
\* path, and a generated file is at that path) and is counted as succeeded:
\* succeeded is the number of removed sources.  Every file in failedFiles
\* still has its original on disk.
C15_RemovedOnSuccessOnly ==
  /\ \A p \in RemovedSources :
       \E i \in 1..Len(hist) :
         /\ hist[i].path = p
         /\ hist[i].io = "ok"
         /\ hist[i].primary = "ok" \/ hist[i].fallback = "ok"
         /\ hist[i].out \in DOMAIN disk
         /\ disk[hist[i].out].kind = "gen"
         /\ TimesFailed(p) = 0
  /\ Cardinality(RemovedSources) = summary.succeeded
  /\ \A i \in 1..Len(summary.failedFiles) :
       /\ summary.failedFiles[i] \in DOMAIN disk
       /\ disk[summary.failedFiles[i]] = Original(summary.failedFiles[i])

C15_Witness ==
  /\ pc = "done"
  /\ Cardinality(RemovedSources) = 1
  /\ summary.succeeded = 1
  /\ summary.failed = 1
  /\ \E i \in 1..Len(hist) : hist[i].io = "writeErr"

\* -------------------------------------------------------------------- C16
\* C16: every output file the run has written has the directory and the
\* base name of its source file, with the extension tsx when the file was
\* classified as a component and ts otherwise, whichever model gave the
\* text.
C16_OutputPathFollowsClassification ==
  \A i \in 1..Len(hist) :
    hist[i].out # NoPath =>
      /\ hist[i].out.dir = hist[i].path.dir
      /\ hist[i].out.name =
           Append(ParsedName(hist[i].path.name),
                  IF hist[i].isReactComponent THEN "tsx" ELSE "ts")

\* -------------------------------------------------------------------- C17
\* the records of the files that were written and removed after the fallback
\* model gave the text
SucceededAfterPrimaryFailed ==
  {i \in 1..Len(hist) : hist[i].io = "ok" /\ hist[i].primary = "failed"
                                          /\ hist[i].fallback = "ok"}

\* the two files of the scenario, in the root directory
ScenarioA == [dir |-> <<>>, name |-> <<"a", "js">>]
ScenarioB == [dir |-> <<>>, name |-> <<"b", "js">>]

\* the run has ended after a.js (plain script, the primary model gave the
\* text) and b.js (component, the primary call failed, the fallback model
\* gave the text), no write or unlink failing
ScenarioRan ==
  /\ pc = "done"
  /\ Len(hist) = 2
  /\ \E i, j \in 1..2 :
       /\ hist[i].path = ScenarioA /\ ~hist[i].isReactComponent
       /\ hist[i].primary = "ok" /\ hist[i].io = "ok"
       /\ hist[j].path = ScenarioB /\ hist[j].isReactComponent
       /\ hist[j].primary = "failed" /\ hist[j].fallback = "ok"
       /\ hist[j].io = "ok"

\* C17: after the scenario a.ts and b.tsx are written, a.js and b.js are
\* removed, and the summary is attempted = 2, succeeded = 2, failed = 0,
\* failedInitiallyButSucceeded = 1; in every completed run
\* failedInitiallyButSucceeded is the number of succeeded files whose
\* primary call failed.
C17_ScenarioAndFallbackCount ==
  /\ ScenarioRan =>
       /\ NewFilePath(ScenarioA, "ts") \in DOMAIN disk
       /\ disk[NewFilePath(ScenarioA, "ts")].kind = "gen"
       /\ disk[ScenarioA].kind = "gone"
       /\ NewFilePath(ScenarioB, "tsx") \in DOMAIN disk
       /\ disk[NewFilePath(ScenarioB, "tsx")].kind = "gen"
       /\ disk[ScenarioB].kind = "gone"
       /\ summary.attempted = 2
       /\ summary.succeeded = 2
       /\ summary.failed = 0
       /\ summary.failedInitiallyButSucceeded = 1
  /\ pc = "done" =>
       summary.failedInitiallyButSucceeded = Cardinality(SucceededAfterPrimaryFailed)

\* -------------------------------------------------------------------- C18
\* C18: while callOpenAIWithRetries sleeps after the 429 answer to attempt
\* n, n is between 0 and maxRetries - 1 and the delay d is an integer with
\* baseDelay * 2^n <= d < baseDelay * 2^n + 1000.
C18_BackoffDelayBounds ==
  (pipeline = "fileProcessor" /\ pc = "backoff") =>
    /\ cur.lastStatus = "429"
    /\ attempt \in 0..(maxRetries - 1)
    /\ delayTime \in Int
    /\ baseDelay * (2 ^ attempt) <= delayTime
    /\ delayTime < baseDelay * (2 ^ attempt) + 1000

C18_Witness ==
  /\ pipeline = "fileProcessor"
  /\ pc = "backoff"
  /\ attempt = maxRetries - 1
  /\ delayTime = 32999

\* -------------------------------------------------------------------- C19
\* C19: in one call of the client every backoff sleep is followed by a retry
\* request to the same model: a sleep is only started while an attempt is
\* left, and once the sleeps of the call are over their number is the
\* number of requests of the call after the first one.
C19_EveryBackoffIsFollowedByRetry ==
  /\ pc = "backoff" => cur.callReqs < MaxRetriesOf(pipeline)
  /\ (pc \in {"await", "fileDone"} /\ cur.calls # <<>>) =>
       cur.sleeps = cur.callReqs - 1

\* -------------------------------------------------------------------- C20
\* the records of the files that are in failedFiles
RecordedFailed == {i \in 1..Len(hist) : TimesFailed(hist[i].path) >= 1}

\* C20 as stated: no output file has been written for a file recorded in
\* failedFiles, wherever the failure arose.
C20_NoOutputForFailedFile ==
  \A i \in RecordedFailed : hist[i].out = NoPath

\* C20, amended: a file recorded in failedFiles has an output written only
\* when the write succeeded and the removal of the original then failed;
\* the output then lies beside the untouched original and the file is not
\* counted as succeeded.  A failure of the read, of both completion calls
\* or of the write leaves no output.
C20_OutputOnlyAfterUnlinkError ==
  /\ \A i \in RecordedFailed :
       /\ hist[i].out # NoPath <=> hist[i].io = "unlinkErr"
       /\ hist[i].out # NoPath =>
            /\ hist[i].out \in DOMAIN disk
            /\ disk[hist[i].out].kind = "gen"
            /\ disk[hist[i].path] = Original(hist[i].path)
       /\ hist[i].io # "ok"
  /\ summary.succeeded <= Cardinality({i \in 1..Len(hist) : hist[i].io = "ok"})

C20_Witness ==
  /\ pc = "done"
  /\ \E i \in RecordedFailed :
       /\ hist[i].io = "unlinkErr"
       /\ hist[i].out # NoPath
       /\ hist[i].fallback = "ok"
  /\ \E i \in RecordedFailed : hist[i].io = "writeErr"

\* -------------------------------------------------------------------- C21
\* the records of the files for which an output was written
Written == {i \in 1..Len(hist) : hist[i].out # NoPath}

\* C21: within one traversal distinct source files are written to distinct
\* output paths: no two files of the run have the same output path, and
\* the file at an output path is the one generated from the source that
\* was written there.
C21_OutputPathsAreDistinct ==
  /\ \A i, j \in Written :
       hist[i].path # hist[j].path => hist[i].out # hist[j].out
  /\ \A i \in Written :
       hist[i].out # hist[i].path => disk[hist[i].out].src = hist[i].path

\* -------------------------------------------------------------------- C22
\* C22: when a traversal of index.ts / fileProcessor.ts has completed, the
\* per-model success counters add up to succeeded and
\* failedInitiallyButSucceeded is fouroSuccess, whatever the completion
\* calls, the writes and the deletes did.
C22_ModelCountersAddUp ==
  (pipeline = "fileProcessor" /\ pc = "done") =>
    /\ summary.gpt35Success + summary.fouroSuccess = summary.succeeded
    /\ summary.failedInitiallyButSucceeded = summary.fouroSuccess

====
